---- MODULE Spec2Model ----
(***************************************************************************)
(* Settings synchronisation of the Keyboard Informer preferences window    *)
(* (src/prefs.js): the GSettings store, the SettingsManager cache          *)
(* (currentSymbols, currentUseIcon, savedSymbols), the per-modifier        *)
(* widgets (text entry, file button, switch) and the reset/save buttons.   *)
(*                                                                         *)
(* Every handler of prefs.js runs to completion on the one UI loop, so     *)
(* each handler is one action.  A handler is computed as a function from   *)
(* the world before it to the world after it; the world is the record of   *)
(* all state variables plus the fields that only live during one handler   *)
(* (a pending exception, the host's choices, what the handler did).        *)
(*                                                                         *)
(* JavaScript values: strings are strings, `undefined` is the reserved     *)
(* string  undefined  below (no program value equals it), an object is a   *)
(* function whose DOMAIN is its own keys, an array is a sequence (0-based  *)
(* index i of the source is i+1 here).                                     *)
(***************************************************************************)
EXTENDS Naturals, Sequences, FiniteSets, TLC

(***************************************************************************)
(* Bounds of the model.                                                    *)
(***************************************************************************)
\* Number of things the user and other processes do while the window is open
\* (edits, picks, toggles, clicks, writes by other processes); what the main
\* loop does on its own account (notifications, idle callbacks) is not counted.
MaxSteps == 2

(***************************************************************************)
(* Program constants.                                                      *)
(***************************************************************************)
MODIFIERS == <<"shift", "caps", "control", "alt", "num", "scroll", "super", "altgr">>

modifierKeys(name) ==
    [symbol  |-> name \o "-symbol",
     icon    |-> name \o "-icon-path",
     useIcon |-> name \o "-use-icon"]

\* getSymbolPresets().modifiers.get('Symbols'); the glyphs are written by
\* their code points: U+21E7, U+2303, U+2387, U+21F3, U+2756, U+2388.
SYMBOL_PRESETS ==
    <<"U+21E7", "Caps", "U+2303", "U+2387", "Num", "U+21F3", "U+2756", "U+2388">>

\* The value JavaScript gives for a missing property or array element.
undefined == "<undefined>"

SavedSymbolsKey == "saved-symbols"

\* Label of a file button with no file chosen.
SelectFile == "Select file..."

ModifierNames == {MODIFIERS[i] : i \in 1..Len(MODIFIERS)}
SymbolKeys    == {modifierKeys(n).symbol : n \in ModifierNames}
IconKeys      == {modifierKeys(n).icon : n \in ModifierNames}
UseIconKeys   == {modifierKeys(n).useIcon : n \in ModifierNames}
StringKeys    == SymbolKeys \cup IconKeys

\* The key list _createPreferenceGroups builds: three keys per modifier.
PrefKeys ==
    [i \in 1..(3 * Len(MODIFIERS)) |->
        LET ks == modifierKeys(MODIFIERS[((i - 1) \div 3) + 1]) IN
        CASE (i - 1) % 3 = 0 -> ks.symbol
          [] (i - 1) % 3 = 1 -> ks.icon
          [] OTHER           -> ks.useIcon]

\* The default-value list _createPreferenceGroups passes beside PrefKeys.
PrefDefaults == SYMBOL_PRESETS

(***************************************************************************)
(* The GSettings schema (schemas/*.gschema.xml, not among the sources).    *)
(***************************************************************************)
SchemaDefault(key) ==
    IF key \in SymbolKeys
    THEN SYMBOL_PRESETS[CHOOSE i \in 1..Len(MODIFIERS) : modifierKeys(MODIFIERS[i]).symbol = key]
    ELSE IF key \in IconKeys THEN "" ELSE undefined

SchemaDefaultBoolean(key) == FALSE

SchemaDefaultSaved == <<>>

(***************************************************************************)
(* What the environment may enter.                                         *)
(***************************************************************************)
\* The modifiers whose entry the user edits and whose symbol other processes
\* write: one with an entry in SYMBOL_PRESETS at the index of each of its
\* keys in PrefKeys, and one past the end of SYMBOL_PRESETS.
EditMods == {"shift", "alt"}
\* The modifier whose file button and switch the user works and whose
\* icon-path and use-icon keys other processes write.
IconMod == "shift"
\* The modifier whose symbol a window may find changed when it opens, and
\* that a preset written by another process may name.
FirstMod == "shift"

\* The texts typed into an entry or written to a symbol key.
CustomText == "t1"
Texts == {"", CustomText}
\* The files picked or written to an icon-path key ("" is no file).
IconDir  == "/icons/"
IconFile == "f1.svg"
Paths    == {"", IconDir \o IconFile}

\* A key the schema does not know, as an older or foreign preset may hold.
ForeignKey == "legacy-symbol"

\* Presets another process may write to saved-symbols.
ExternalPresets ==
    {<<>>}
    \cup {(ForeignKey :> t) : t \in Texts}
    \cup {(modifierKeys(FirstMod).symbol :> CustomText)}

(***************************************************************************)
(* JavaScript helpers.                                                     *)
(***************************************************************************)
\* obj[key]
Get(obj, key) == IF key \in DOMAIN obj THEN obj[key] ELSE undefined

\* obj[key] = value
Put(obj, key, value) == (key :> value) @@ obj

\* a ?? b
Coalesce(a, b) == IF a = undefined THEN b ELSE a

\* a || b for a string or undefined a
OrElse(a, b) == IF a = undefined \/ a = "" THEN b ELSE a

\* GLib.path_get_basename on the paths of the model: the part after the
\* last '/', and the string itself when it holds no '/'.
path_get_basename(path) ==
    IF path = IconDir \o IconFile THEN IconFile ELSE path

(***************************************************************************)
(* State.                                                                  *)
(***************************************************************************)
VARIABLES
    settings,        \* GSettings: value of every -symbol and -icon-path key
    settingsBool,    \* GSettings: value of every -use-icon key
    settingsSaved,   \* GSettings: the a{ss} value of saved-symbols
    currentSymbols,  \* SettingsManager.currentSymbols
    currentUseIcon,  \* SettingsManager.currentUseIcon
    savedSymbols,    \* SettingsManager.savedSymbols
    text,            \* Gtk.Entry.text of each modifier's entry, by -symbol key
    blockCount,      \* how often each entry's 'changed' handler is blocked
    idle,            \* the GLib.idle_add callbacks of updateEntry not run yet, oldest
                     \* first, each named by the key of the entry it unblocks
    label,           \* label of each modifier's file button, by -icon-path key
    active,          \* Gtk.Switch.active of each modifier, by -use-icon key
    visibleChild,    \* visible child of each modifier's stack, by -use-icon key
    resetSensitive,  \* resetButton.sensitive
    saveVisible,     \* saveButton.visible
    queue,           \* change notifications the store has not delivered yet
    closed,          \* the window was closed and its widgets destroyed; nothing
                     \* disconnects the store subscribers or removes the idle
                     \* sources, and the closures keep the widget objects
    steps,           \* what the user and other processes did so far (a count)
    last             \* what the handler that ran last did (observation only)

vars == <<settings, settingsBool, settingsSaved, currentSymbols, currentUseIcon,
          savedSymbols, text, blockCount, idle, label, active, visibleChild,
          resetSensitive, saveVisible, queue, closed, steps, last>>

\* Marks "no preset was handed to the store" in a handler's record.
NoPreset == ("<none>" :> "")

\* The world a handler starts in.  inline: the store runs the subscribers of
\* a local write inside the write (otherwise it queues the notification);
\* bindRaises: the language binding raises on a value that is not a string
\* (otherwise the call has no effect); storeRaises: the store raises on a
\* write the schema rejects (otherwise the write has no effect);
\* switchEmits: Gtk.Switch.set_active emits 'state-set' on a change.
World(inline, bindRaises, storeRaises, switchEmits) ==
    [settings |-> settings, settingsBool |-> settingsBool,
     settingsSaved |-> settingsSaved, currentSymbols |-> currentSymbols,
     currentUseIcon |-> currentUseIcon, savedSymbols |-> savedSymbols,
     text |-> text, blockCount |-> blockCount, idle |-> idle, label |-> label,
     active |-> active, visibleChild |-> visibleChild,
     resetSensitive |-> resetSensitive, saveVisible |-> saveVisible,
     queue |-> queue, closed |-> closed,
     inline |-> inline, bindRaises |-> bindRaises, storeRaises |-> storeRaises,
     switchEmits |-> switchEmits,
     thrown |-> FALSE,      \* an exception is propagating
     swallowed |-> FALSE,   \* a rejected store write returned normally
     echo |-> FALSE,        \* a programmatic entry.text write reached the change callback
     switchEcho |-> FALSE,  \* a programmatic set_active reached the state-set handler
     pushes |-> 0,          \* updateEntry calls that reached entry.text = value
     refreshes |-> 0,       \* _updateButtonStates calls
     writes |-> 0,          \* store writes issued (set_string, set_boolean, set_value)
     stale |-> FALSE,       \* an entry of the closed window was operated on
     sets |-> {},           \* the <<key, value>> of the setString calls that returned
     offered |-> NoPreset]  \* the preset handed to the store by setSavedSymbols

\* The current state read without any handler running.
Now == World(FALSE, FALSE, FALSE, FALSE)

(***************************************************************************)
(* SettingsManager and SimpleManager: the pure parts.                      *)
(***************************************************************************)
\* SettingsManager.symbolsEqual
symbolsEqual(obj1, obj2) ==
    IF Cardinality(DOMAIN obj1) # Cardinality(DOMAIN obj2) THEN FALSE
    ELSE \A key \in DOMAIN obj1 :
            Coalesce(Get(obj1, key), "") = Coalesce(Get(obj2, key), "")

\* currentDiffersFromSaved without the `?? ''`: a key the saved map lacks
\* compares as undefined.
currentDiffersFromSavedStrict(w, keys) ==
    \E i \in 1..Len(keys) :
        Get(w.currentSymbols, keys[i]) # Get(w.savedSymbols, keys[i])

\* SettingsManager.currentDiffersFromSaved
currentDiffersFromSaved(w, keys) ==
    \E i \in 1..Len(keys) :
        Get(w.currentSymbols, keys[i]) # Coalesce(Get(w.savedSymbols, keys[i]), "")

\* defaultValues[i] of the source, an index past the end giving undefined
ArrayGet(arr, i) == IF i \in 1..Len(arr) THEN arr[i] ELSE undefined

\* SimpleManager.isCurrentEqualToDefault, for a manager built with keys and defaultValues
isCurrentEqualToDefaultOf(w, keys, defaultValues) ==
    \A i \in 1..Len(keys) :
        Get(w.currentSymbols, keys[i]) = ArrayGet(defaultValues, i)

\* SimpleManager.isCurrentEqualToSaved, for a manager built with keys
isCurrentEqualToSavedOf(w, keys) == ~currentDiffersFromSaved(w, keys)

\* The two predicates of the one manager the window builds.
isCurrentEqualToDefault(w) == isCurrentEqualToDefaultOf(w, PrefKeys, PrefDefaults)
isCurrentEqualToSaved(w)   == isCurrentEqualToSavedOf(w, PrefKeys)

\* _updateButtonStates with the negation of isDefault lost.
updateButtonStatesInverted(w) ==
    [w EXCEPT !.resetSensitive = isCurrentEqualToDefault(w),
              !.saveVisible = ~isCurrentEqualToSaved(w),
              !.refreshes = @ + 1]

\* GroupBuilder._updateButtonStates
updateButtonStates(w) ==
    [w EXCEPT !.resetSensitive = ~isCurrentEqualToDefault(w),
              !.saveVisible = ~isCurrentEqualToSaved(w),
              !.refreshes = @ + 1]

\* The onEntryChanged closure createGroup passes to _createEntryRows.
onEntryChanged(w) == updateButtonStates(w)

(***************************************************************************)
(* The host: GSettings writes and the notifications they cause.            *)
(***************************************************************************)
RECURSIVE notify(_, _)

\* A call the host rejects: it raises, or it returns having done nothing.
Reject(w, raises) ==
    IF raises THEN [w EXCEPT !.thrown = TRUE] ELSE [w EXCEPT !.swallowed = TRUE]

\* Gio.Settings.set_string: a value that is no string is rejected by the
\* binding, a key that is no string key by the schema; a write of the value
\* already stored notifies nobody.
set_string(w, key, value) ==
    LET w1 == [w EXCEPT !.writes = @ + 1] IN
    IF value = undefined THEN Reject(w1, w.bindRaises)
    ELSE IF key \notin StringKeys THEN Reject(w1, w.storeRaises)
    ELSE IF w.settings[key] = value THEN w1
    ELSE notify([w1 EXCEPT !.settings[key] = value], key)

\* set_boolean telling the subscribers of a write of the value already stored.
set_booleanAlwaysNotifies(w, key, value) ==
    LET w1 == [w EXCEPT !.writes = @ + 1] IN
    IF key \notin UseIconKeys THEN Reject(w1, w.storeRaises)
    ELSE notify([w1 EXCEPT !.settingsBool[key] = value], key)

\* Gio.Settings.set_boolean
set_boolean(w, key, value) ==
    LET w1 == [w EXCEPT !.writes = @ + 1] IN
    IF key \notin UseIconKeys THEN Reject(w1, w.storeRaises)
    ELSE IF w.settingsBool[key] = value THEN w1
    ELSE notify([w1 EXCEPT !.settingsBool[key] = value], key)

\* new GLib.Variant('a{ss}', symbols) handed to Gio.Settings.set_value for
\* saved-symbols: every value of an a{ss} must be a string.
set_value_saved(w, symbols) ==
    LET w1 == [w EXCEPT !.writes = @ + 1, !.offered = symbols] IN
    IF \E k \in DOMAIN symbols : symbols[k] = undefined THEN Reject(w1, w.bindRaises)
    ELSE IF w.settingsSaved = symbols THEN w1
    ELSE notify([w1 EXCEPT !.settingsSaved = symbols], SavedSymbolsKey)

(***************************************************************************)
(* SettingsManager: the writing parts.                                     *)
(***************************************************************************)
\* setString leaving the cache to the change notification.
setStringStoreOnly(w, key, value) ==
    LET w1 == set_string(w, key, value) IN
    IF w1.thrown THEN w1
    ELSE [w1 EXCEPT !.sets = @ \cup {<<key, value>>}]

\* SettingsManager.setString
setString(w, key, value) ==
    LET w1 == set_string(w, key, value) IN
    IF w1.thrown THEN w1
    ELSE [w1 EXCEPT !.currentSymbols = Put(@, key, value),
                    !.sets = @ \cup {<<key, value>>}]

\* setBoolean keeping the flag among the cached strings.
setBooleanIntoSymbols(w, key, value) ==
    LET w1 == set_boolean(w, key, value) IN
    IF w1.thrown THEN w1
    ELSE [w1 EXCEPT !.currentSymbols = Put(@, key, IF value THEN "true" ELSE "false"),
                    !.currentUseIcon = Put(@, key, value)]

\* SettingsManager.setBoolean
setBoolean(w, key, value) ==
    LET w1 == set_boolean(w, key, value) IN
    IF w1.thrown THEN w1
    ELSE [w1 EXCEPT !.currentUseIcon = Put(@, key, value)]

\* SettingsManager.setSavedSymbols
setSavedSymbols(w, symbols) ==
    set_value_saved([w EXCEPT !.savedSymbols = symbols], symbols)

(***************************************************************************)
(* EntryManager and the wiring of _createEntryRows.                        *)
(***************************************************************************)
\* The change callback _createEntryRows gives addEntry for a text entry.
changeCallback(w, key, newValue) ==
    IF Get(w.currentSymbols, key) # newValue
    THEN LET w1 == setString(w, key, newValue) IN
         IF w1.thrown THEN w1 ELSE onEntryChanged(w1)
    ELSE w

\* The 'changed' handler addEntry connects; a blocked handler is not run.
entryChanged(w, key) ==
    IF w.blockCount[key] > 0 THEN w
    ELSE changeCallback(w, key, w.text[key])

\* entry.text = value by the program: a value that is no string is rejected
\* by the binding; Gtk.Entry emits 'changed' when the text changes.  The only
\* writer is updateEntry, which has blocked the connected handler, so the
\* emission runs nothing; echo records an emission that met the handler
\* unblocked, which would have run the change callback with the written text.
EntrySetText(w, key, value) ==
    IF value = undefined THEN Reject(w, w.bindRaises)
    ELSE IF w.text[key] = value THEN w
    ELSE [w EXCEPT !.text[key] = value,
                   !.echo = @ \/ (w.blockCount[key] = 0)]

\* updateEntry without block_signal_handler and the idle unblock.
updateEntryUnblocked(w, key, value) ==
    IF key \notin DOMAIN w.text THEN w
    ELSE EntrySetText([w EXCEPT !.pushes = @ + 1], key, value)

\* EntryManager.updateEntry
updateEntry(w, key, value) ==
    IF key \notin DOMAIN w.text THEN w
    ELSE LET w1 == [w EXCEPT !.blockCount[key] = @ + 1, !.pushes = @ + 1,
                             !.stale = @ \/ w.closed]
             w2 == EntrySetText(w1, key, value)
         IN  IF w2.thrown THEN w2
             ELSE [w2 EXCEPT !.idle = Append(@, key)]

\* The changed::<symbol> handler without the comparison with the cache.
symbolChangedAlways(w, key) ==
    LET newValue == w.settings[key] IN
    onEntryChanged(
        updateEntry([w EXCEPT !.currentSymbols = Put(@, key, newValue)], key, newValue))

\* The changed::<symbol> handler.
symbolChanged(w, key) ==
    LET newValue == w.settings[key] IN
    IF Get(w.currentSymbols, key) # newValue
    THEN onEntryChanged(
            updateEntry([w EXCEPT !.currentSymbols = Put(@, key, newValue)],
                        key, newValue))
    ELSE w

\* updateLabel of createFilePickerButton
updateLabel(w, key, path) ==
    [w EXCEPT !.label[key] = IF path = "" THEN SelectFile ELSE path_get_basename(path)]

\* The changed::<icon-path> handler leaving the file button's label alone.
iconChangedSilent(w, key) ==
    LET newValue == w.settings[key] IN
    IF Get(w.currentSymbols, key) # newValue
    THEN onEntryChanged([w EXCEPT !.currentSymbols = Put(@, key, newValue)])
    ELSE w

\* The changed::<icon-path> handler.
iconChanged(w, key) ==
    LET newValue == w.settings[key] IN
    IF Get(w.currentSymbols, key) # newValue
    THEN onEntryChanged(
            updateLabel([w EXCEPT !.currentSymbols = Put(@, key, newValue)],
                        key, newValue))
    ELSE w

\* The onPicked callback of the file button, then the rest of dialog.open's
\* continuation.
filePicked(w, key, path) ==
    LET w1 == IF Get(w.currentSymbols, key) # path
              THEN onEntryChanged(setString(w, key, path))
              ELSE w
    IN  updateLabel(w1, key, path)

\* stack.set_visible_child_name(isActive ? 'file' : 'text')
setVisibleChild(w, key, isActive) ==
    [w EXCEPT !.visibleChild[key] = IF isActive THEN "file" ELSE "text"]

\* The 'state-set' handler of the switch; returning false lets the switch
\* take the proposed state.
stateSet(w, key, isActive) ==
    LET w1 == onEntryChanged(setVisibleChild(setBoolean(w, key, isActive), key, isActive))
    IN  [w1 EXCEPT !.active[key] = isActive]

\* useIconSwitch.set_active(value) by the program.
set_active(w, key, value) ==
    IF w.active[key] = value THEN w
    ELSE IF w.switchEmits
         THEN stateSet([w EXCEPT !.switchEcho = TRUE], key, value)
         ELSE [w EXCEPT !.active[key] = value]

\* The changed::<use-icon> handler.
useIconChanged(w, key) ==
    LET newVal == w.settingsBool[key] IN
    IF w.currentUseIcon[key] # newVal
    THEN onEntryChanged(
            setVisibleChild(
                set_active([w EXCEPT !.currentUseIcon = Put(@, key, newVal)], key, newVal),
                key, newVal))
    ELSE w

\* The changed::saved-symbols handler of _setupButtonLogic.
savedSymbolsChanged(w) ==
    LET newSavedSymbols == w.settingsSaved IN
    IF ~symbolsEqual(w.savedSymbols, newSavedSymbols)
    THEN updateButtonStates([w EXCEPT !.savedSymbols = newSavedSymbols])
    ELSE w

\* The subscriber SettingsManager.connect registered for a key.
handler(w, key) ==
    CASE key \in SymbolKeys     -> symbolChanged(w, key)
      [] key \in IconKeys       -> iconChanged(w, key)
      [] key \in UseIconKeys    -> useIconChanged(w, key)
      [] key = SavedSymbolsKey  -> savedSymbolsChanged(w)

\* The store tells the subscribers of a changed key: inside the write, or
\* from the main loop later.
notify(w, key) ==
    IF w.inline THEN handler(w, key)
    ELSE [w EXCEPT !.queue = Append(@, key)]

(***************************************************************************)
(* SimpleManager: reset and save.                                          *)
(***************************************************************************)
RECURSIVE applyDefaultsFrom(_, _, _, _)
\* The forEach of applyDefaults from index i on; an exception ends it.
applyDefaultsFrom(w, keys, defaultValues, i) ==
    IF i > Len(keys) \/ w.thrown THEN w
    ELSE LET key == keys[i]
             value == ArrayGet(defaultValues, i)
             w1 == IF Get(w.currentSymbols, key) # value
                   THEN LET u == updateEntry(w, key, value) IN
                        IF u.thrown THEN u ELSE setString(u, key, value)
                   ELSE w
         IN  applyDefaultsFrom(w1, keys, defaultValues, i + 1)

\* SimpleManager.applyDefaults
applyDefaults(w) == applyDefaultsFrom(w, PrefKeys, PrefDefaults, 1)

RECURSIVE copyCurrentFrom(_, _, _)
\* The forEach of saveCurrentAsPreset from index i on.
copyCurrentFrom(w, keys, i) ==
    IF i > Len(keys) THEN w
    ELSE copyCurrentFrom(
            [w EXCEPT !.savedSymbols = Put(@, keys[i], Get(w.currentSymbols, keys[i]))],
            keys, i + 1)

\* saveCurrentAsPreset building the preset from the key list alone.
saveCurrentAsPresetFresh(w) ==
    LET w1 == copyCurrentFrom([w EXCEPT !.savedSymbols = <<>>], PrefKeys, 1) IN
    setSavedSymbols(w1, w1.savedSymbols)

\* SimpleManager.saveCurrentAsPreset
saveCurrentAsPreset(w) ==
    LET w1 == copyCurrentFrom(w, PrefKeys, 1) IN
    setSavedSymbols(w1, w1.savedSymbols)

\* The 'clicked' handler of the reset button.
resetClicked(w) ==
    LET w1 == applyDefaults(w) IN
    IF w1.thrown THEN w1 ELSE updateButtonStates(w1)

\* The 'clicked' handler of the save button.
saveClicked(w) ==
    LET w1 == saveCurrentAsPreset(w) IN
    IF w1.thrown THEN w1 ELSE updateButtonStates(w1)

(***************************************************************************)
(* Construction: SettingsManager.initialize and GroupBuilder.createGroup.   *)
(***************************************************************************)
\* What a handler leaves in  last.
Observed(w, op, key, same) ==
    [op |-> op, key |-> key, same |-> same, threw |-> w.thrown,
     swallowed |-> w.swallowed, echo |-> w.echo, switchEcho |-> w.switchEcho,
     pushes |-> w.pushes, refreshes |-> w.refreshes, writes |-> w.writes,
     stale |-> w.stale, sets |-> w.sets, offered |-> w.offered]

\* SettingsManager._loadCurrentState, read from the store (s, b, p).
loadCurrentState(s, b, p) ==
    [currentSymbols |-> [k \in StringKeys |-> s[k]],
     currentUseIcon |-> [k \in UseIconKeys |-> b[k]],
     savedSymbols   |-> p]

\* The state of a window opened on a store holding strings s, booleans b
\* and preset p.
Opened(s, b, p) ==
    LET c == loadCurrentState(s, b, p) IN
    /\ settings = s
    /\ settingsBool = b
    /\ settingsSaved = p
    /\ currentSymbols = c.currentSymbols
    /\ currentUseIcon = c.currentUseIcon
    /\ savedSymbols = c.savedSymbols
    /\ text = [k \in SymbolKeys |-> OrElse(c.currentSymbols[k], "")]
    /\ blockCount = [k \in SymbolKeys |-> 0]
    /\ idle = <<>>
    /\ label = [k \in IconKeys |->
                  LET initialPath == OrElse(c.currentSymbols[k], "") IN
                  IF initialPath # "" THEN path_get_basename(initialPath) ELSE SelectFile]
    /\ active = c.currentUseIcon
    /\ visibleChild = [k \in UseIconKeys |-> IF c.currentUseIcon[k] THEN "file" ELSE "text"]
    /\ queue = <<>>
    /\ closed = FALSE
    /\ steps = 0

\* _createControlButtons, then the initial updateButtonStates() of
\* _setupButtonLogic, on a freshly loaded cache c.
createdButtons(c) ==
    updateButtonStates(
        [currentSymbols |-> c.currentSymbols, savedSymbols |-> c.savedSymbols,
         resetSensitive |-> TRUE, saveVisible |-> FALSE, refreshes |-> 0])

\* The store a window may be opened on: the schema's defaults, but for the
\* first modifier's symbol and the preset.
Init ==
    \E v \in {CustomText, SchemaDefault(modifierKeys(FirstMod).symbol)},
       p \in ExternalPresets :
        LET s == [k \in StringKeys |->
                    IF k = modifierKeys(FirstMod).symbol THEN v ELSE SchemaDefault(k)]
            b == [k \in UseIconKeys |-> SchemaDefaultBoolean(k)]
            buttons == createdButtons(loadCurrentState(s, b, p))
        IN  /\ Opened(s, b, p)
            /\ resetSensitive = buttons.resetSensitive
            /\ saveVisible = buttons.saveVisible
            /\ last = [op |-> "init", key |-> "", same |-> FALSE, threw |-> FALSE,
                       swallowed |-> FALSE, echo |-> FALSE, switchEcho |-> FALSE,
                       pushes |-> 0, refreshes |-> buttons.refreshes, writes |-> 0,
                       stale |-> FALSE, sets |-> {}, offered |-> NoPreset]

(***************************************************************************)
(* Actions: one per handler, and the environment's writes.                 *)
(***************************************************************************)
\* A handler ends in world w: the state becomes w's.
Finish(w, op, key, same) ==
    /\ settings' = w.settings
    /\ settingsBool' = w.settingsBool
    /\ settingsSaved' = w.settingsSaved
    /\ currentSymbols' = w.currentSymbols
    /\ currentUseIcon' = w.currentUseIcon
    /\ savedSymbols' = w.savedSymbols
    /\ text' = w.text
    /\ blockCount' = w.blockCount
    /\ idle' = w.idle
    /\ label' = w.label
    /\ active' = w.active
    /\ visibleChild' = w.visibleChild
    /\ resetSensitive' = w.resetSensitive
    /\ saveVisible' = w.saveVisible
    /\ queue' = w.queue
    /\ closed' = w.closed
    /\ last' = Observed(w, op, key, same)

\* A handler run by the main loop on its own account.
Commit(w, op, key, same) == Finish(w, op, key, same) /\ UNCHANGED steps

\* A handler run for something the user or another process did.
Stimulus(w, op, key, same) ==
    /\ steps < MaxSteps
    /\ Finish(w, op, key, same)
    /\ steps' = steps + 1

\* The user changes the text of a modifier's entry.
UserEdit ==
    \E m \in EditMods, v \in Texts, inline \in BOOLEAN :
        LET key == modifierKeys(m).symbol
            w0 == World(inline, FALSE, FALSE, FALSE)
        IN  /\ ~closed
            /\ text[key] # v
            /\ Stimulus(entryChanged([w0 EXCEPT !.text[key] = v], key), "edit", key, FALSE)

\* The user picks a file (or none) in a modifier's file dialog.
FilePicked ==
    \E path \in Paths, inline \in BOOLEAN :
        LET key == modifierKeys(IconMod).icon IN
        /\ ~closed
        /\ Stimulus(filePicked(World(inline, FALSE, FALSE, FALSE), key, path),
                    "pick", key, FALSE)

\* The user flips a modifier's switch.
SwitchToggled ==
    \E inline \in BOOLEAN :
        LET key == modifierKeys(IconMod).useIcon IN
        /\ ~closed
        /\ Stimulus(stateSet(World(inline, FALSE, FALSE, FALSE), key, ~active[key]),
                    "toggle", key, FALSE)

\* The user clicks "Reset to defaults" (an insensitive button takes no click).
ResetClicked ==
    /\ ~closed
    /\ resetSensitive
    /\ \E inline \in BOOLEAN, bindRaises \in BOOLEAN, storeRaises \in BOOLEAN :
          Stimulus(resetClicked(World(inline, bindRaises, storeRaises, FALSE)),
                 "reset", "", FALSE)

\* The user clicks "Save" (an invisible button takes no click).
SaveClicked ==
    /\ ~closed
    /\ saveVisible
    /\ \E inline \in BOOLEAN, bindRaises \in BOOLEAN :
          Stimulus(saveClicked(World(inline, bindRaises, FALSE, FALSE)), "save", "", FALSE)

\* Another process writes a symbol key; the store queues the notification.
ExternalWrite ==
    \E m \in EditMods, v \in Texts :
        LET key == modifierKeys(m).symbol IN
        /\ settings[key] # v
        /\ Stimulus([Now EXCEPT !.settings[key] = v, !.queue = Append(@, key)],
                    "external", key, FALSE)

\* Another process writes an icon-path key.
ExternalIcon ==
    \E path \in Paths :
        LET key == modifierKeys(IconMod).icon IN
        /\ settings[key] # path
        /\ Stimulus([Now EXCEPT !.settings[key] = path, !.queue = Append(@, key)],
                    "external", key, FALSE)

\* Another process flips a use-icon key.
ExternalToggle ==
    LET key == modifierKeys(IconMod).useIcon IN
    Stimulus([Now EXCEPT !.settingsBool[key] = ~settingsBool[key],
                         !.queue = Append(@, key)],
             "external", key, FALSE)

\* Another process replaces the saved-symbols preset.
ExternalPreset ==
    \E p \in ExternalPresets :
        /\ settingsSaved # p
        /\ Stimulus([Now EXCEPT !.settingsSaved = p, !.queue = Append(@, SavedSymbolsKey)],
                  "external", SavedSymbolsKey, FALSE)

\* The user closes the window: its widgets are destroyed.
CloseWindow ==
    /\ ~closed
    /\ Stimulus([Now EXCEPT !.closed = TRUE], "close", "", FALSE)

\* Whether the value the store holds for key is the one the cache holds.
CacheHolds(key) ==
    CASE key \in StringKeys    -> Get(currentSymbols, key) = settings[key]
      [] key \in UseIconKeys   -> currentUseIcon[key] = settingsBool[key]
      [] key = SavedSymbolsKey -> savedSymbols = settingsSaved

\* The main loop delivers the oldest waiting change notification.
Deliver ==
    /\ queue # <<>>
    /\ \E switchEmits \in BOOLEAN, inline \in BOOLEAN :
          LET key == Head(queue)
              w0 == World(inline, FALSE, FALSE, switchEmits)
          IN  Commit(handler([w0 EXCEPT !.queue = Tail(queue)], key),
                     "notify", key, CacheHolds(key))

\* How often key occurs in the sequence q.
Count(q, key) == Cardinality({i \in 1..Len(q) : q[i] = key})

\* The main loop has nothing else to do and dispatches its idle sources: all
\* the waiting idle callbacks of updateEntry run, each unblocking its entry's
\* 'changed' handler once.
IdleRun ==
    /\ idle # <<>>
    /\ Commit([Now EXCEPT !.idle = <<>>,
                          !.blockCount = [k \in SymbolKeys |-> @[k] - Count(idle, k)],
                          !.stale = closed],
              "idle", "", FALSE)

Next ==
    \/ UserEdit
    \/ FilePicked
    \/ SwitchToggled
    \/ ResetClicked
    \/ SaveClicked
    \/ ExternalWrite
    \/ ExternalIcon
    \/ ExternalToggle
    \/ ExternalPreset
    \/ CloseWindow
    \/ Deliver
    \/ IdleRun

Spec == Init /\ [][Next]_vars

(***************************************************************************)
(* What the claims speak of.                                               *)
(***************************************************************************)
\* The keys of a key list.
KeysOf(keys) == {keys[i] : i \in 1..Len(keys)}

\* The cache holds the schema's default for key.
AtSchemaDefault(key) ==
    IF key \in UseIconKeys
    THEN currentUseIcon[key] = SchemaDefaultBoolean(key)
    ELSE Get(currentSymbols, key) = SchemaDefault(key)

\* saved[key], a key the saved map does not hold read as the empty string.
SavedOrEmpty(key) ==
    IF key \in DOMAIN savedSymbols /\ savedSymbols[key] # undefined
    THEN savedSymbols[key]
    ELSE ""

\* C1: after a click on "Reset to defaults" the manager is at its defaults:
\* isCurrentEqualToDefault() is true and every string key of the key list
\* holds its schema default.
C1_ResetReachesDefault ==
    last.op = "reset" =>
        /\ isCurrentEqualToDefault(Now)
        /\ \A key \in KeysOf(PrefKeys) \cap StringKeys : AtSchemaDefault(key)

\* C2: after a click on "Save" isCurrentEqualToSaved() is true and a fresh
\* load from the store gives the saved values the cache holds.
C2_SaveReachesSaved ==
    last.op = "save" =>
        /\ isCurrentEqualToSaved(Now)
        /\ \A key \in StringKeys :
              Coalesce(Get(loadCurrentState(settings, settingsBool, settingsSaved).savedSymbols,
                           key), "")
              = Coalesce(Get(savedSymbols, key), "")

\* C3: isCurrentEqualToDefault() is true exactly when every key of the key
\* list holds, in the cache, the schema default of that key.
C3_DefaultMeansSchemaDefault ==
    isCurrentEqualToDefault(Now) <=> \A key \in KeysOf(PrefKeys) : AtSchemaDefault(key)

\* C4: between handlers the reset button is sensitive exactly when
\* isCurrentEqualToDefault() is false, and the save button is visible exactly
\* when isCurrentEqualToSaved() is false.
C4_ButtonsFollowCache ==
    /\ resetSensitive = ~isCurrentEqualToDefault(Now)
    /\ saveVisible = ~isCurrentEqualToSaved(Now)

\* C4 witness: a completed reset has made the reset button insensitive, the
\* save button staying visible.
C4_Witness ==
    /\ last.op = "reset"
    /\ ~last.threw
    /\ last.refreshes > 0
    /\ isCurrentEqualToDefault(Now)
    /\ ~resetSensitive
    /\ saveVisible

\* C5: no write of updateEntry into an entry reaches the entry's change
\* callback.
C5_NoEchoFromPush == ~last.echo

\* C5 witness: a notification handler has pushed a new text into an entry.
C5_Witness ==
    /\ last.op = "notify"
    /\ last.key \in SymbolKeys
    /\ last.pushes > 0
    /\ text[last.key] = settings[last.key]
    /\ blockCount[last.key] > 0

\* C6: a change notification for a symbol, icon-path or use-icon key whose
\* stored value the cache already holds changes nothing: no cache update, no
\* write into a widget, no recomputation of the buttons, no store write.
C6_EchoIsNoOp ==
    [][(last'.op = "notify" /\ last'.same /\ last'.key \in StringKeys \cup UseIconKeys) =>
          /\ UNCHANGED <<settings, settingsBool, settingsSaved, currentSymbols,
                         currentUseIcon, savedSymbols, text, blockCount, idle, label,
                         active, visibleChild, resetSensitive, saveVisible>>
          /\ last'.refreshes = 0
          /\ last'.pushes = 0
          /\ last'.writes = 0]_vars

\* C6 witness: such a notification was delivered.
C6_Witness ==
    /\ last.op = "notify"
    /\ last.same
    /\ last.key \in StringKeys \cup UseIconKeys

\* C7: neither the cached saved map nor the stored preset holds a -use-icon
\* key.
C7_NoUseIconInPreset ==
    /\ DOMAIN savedSymbols \cap UseIconKeys = {}
    /\ DOMAIN settingsSaved \cap UseIconKeys = {}

\* C8: a reset leaves the cached saved map and the stored preset as they
\* were; a save leaves the cache's current values and the per-modifier store
\* keys as they were; and a reset right after a save ends with
\* isCurrentEqualToDefault() true, isCurrentEqualToSaved() false and the saved
\* map as the save left it.
C8_ResetAndSaveFrames ==
    [][/\ last'.op = "reset" =>
            /\ savedSymbols' = savedSymbols
            /\ settingsSaved' = settingsSaved
       /\ last'.op = "save" =>
            UNCHANGED <<currentSymbols, currentUseIcon, settings, settingsBool>>
       /\ (last.op = "save" /\ last'.op = "reset") =>
            /\ isCurrentEqualToDefault(Now)'
            /\ ~isCurrentEqualToSaved(Now)'
            /\ savedSymbols' = savedSymbols]_vars

\* The key lists C9 is checked on.
C9_KeyLists ==
    {<<>>, PrefKeys}
    \cup {<<k>> : k \in StringKeys \cup {modifierKeys(IconMod).useIcon, ForeignKey}}
    \cup {<<modifierKeys(m).symbol, modifierKeys(m).icon>> : m \in EditMods}

\* C9: for every key list, isCurrentEqualToSaved is true exactly when every
\* key's current value equals its saved value, a key the saved map does not
\* hold read as the empty string; on the empty key list both predicates are
\* true.
C9_SavedEquality ==
    /\ \A keys \in C9_KeyLists :
          isCurrentEqualToSavedOf(Now, keys)
          <=> \A i \in 1..Len(keys) : Get(currentSymbols, keys[i]) = SavedOrEmpty(keys[i])
    /\ isCurrentEqualToSavedOf(Now, <<>>)
    /\ isCurrentEqualToDefaultOf(Now, <<>>, <<>>)

\* C9 witness: the user emptied an entry whose key the saved map does not
\* hold, and the key counts as saved.
C9_Witness ==
    /\ last.op = "edit"
    /\ last.key \notin DOMAIN savedSymbols
    /\ Get(currentSymbols, last.key) = ""
    /\ isCurrentEqualToSavedOf(Now, <<last.key>>)

C11_PushAfterCloseIsNoOp ==
    [][(closed /\ last'.op = "notify") =>
          /\ UNCHANGED <<text, blockCount, idle>>
          /\ ~last'.stale
          /\ ~last'.threw]_vars

\* C12: an idle callback of updateEntry that runs after the window was closed
\* does not unblock the handler of the destroyed entry.
C12_RestoreAfterCloseIsNoOp ==
    [][(closed /\ last'.op = "idle") =>
          /\ blockCount' = blockCount
          /\ ~last'.stale]_vars

\* C13: a setString call that returned normally wrote the store: the key is a
\* string key and the store holds the value, so a write the store rejected
\* never looks to the caller like one that happened.
C13_RejectedWriteSurfaces ==
    \A p \in last.sets : p[1] \in StringKeys /\ settings[p[1]] = p[2]

\* C14: after a setString(key, value) that returned, the cache holds value
\* for key, also when the store ran the key's subscriber inside the call.
C14_WriteThenRead ==
    \A p \in last.sets : Get(currentSymbols, p[1]) = p[2]

\* C14 witness: the user's edit was written by setString while the store ran
\* the subscriber inside the write (the subscriber pushed into the entry).
C14_Witness ==
    /\ last.op = "edit"
    /\ ~last.threw
    /\ last.pushes > 0
    /\ <<last.key, text[last.key]>> \in last.sets
    /\ settings[last.key] = text[last.key]

\* C15: the notification of a write the cache issued itself for a user edit
\* or a file pick is an echo to its handler: the handler pushes nothing into
\* a widget and recomputes no button, so the whole edit or pick holds no
\* push and at most the one recomputation of the edit's own callback.
C15_SelfWriteIsEcho ==
    last.op \in {"edit", "pick"} => (last.pushes = 0 /\ last.refreshes <= 1)

\* C16: the blocks of every entry's 'changed' handler and the idle callbacks
\* waiting to unblock it balance.
C16_BlocksBalance ==
    \A key \in SymbolKeys : blockCount[key] = Count(idle, key)

\* The widget bound to key shows the value the store holds for key.
Shows(key) ==
    CASE key \in SymbolKeys  -> text[key] = settings[key]
      [] key \in IconKeys    ->
            label[key] = IF settings[key] = "" THEN SelectFile
                         ELSE path_get_basename(settings[key])
      [] key \in UseIconKeys ->
            /\ active[key] = settingsBool[key]
            /\ visibleChild[key] = IF settingsBool[key] THEN "file" ELSE "text"

\* C17: when another process has written a symbol, icon-path or use-icon key
\* of the open window, no other notification waiting, and the notification of
\* that write has been handled, the cache holds the stored value of the key,
\* the key's widget shows it, and the two buttons are as the cache makes them.
C17_ExternalChangeShown ==
    [][(/\ last.op = "external"
        /\ last.key \in StringKeys \cup UseIconKeys
        /\ Len(queue) = 1
        /\ ~closed
        /\ last'.op = "notify") =>
          /\ CacheHolds(last.key)'
          /\ Shows(last.key)'
          /\ resetSensitive' = ~isCurrentEqualToDefault(Now)'
          /\ saveVisible' = ~isCurrentEqualToSaved(Now)']_vars

\* C17 witness: the notification of another process's write was handled: the
\* handler found the cache behind the store and pushed the value.
C17_Witness ==
    /\ last.op = "notify"
    /\ ~closed
    /\ ~last.same
    /\ last.key \in StringKeys \cup UseIconKeys
    /\ last.refreshes > 0
    /\ Shows(last.key)

\* C18: no set_active of the changed::<use-icon> handler runs the switch's
\* 'state-set' handler (which calls setBoolean).
C18_NoEchoFromSwitchPush == ~last.switchEcho

\* C19: no notification loop.  A delivered notification leaves the store as
\* it was and queues nothing, so every delivery shortens the queue by one;
\* the idle callbacks write nothing, queue nothing and leave no idle source;
\* a reset or save issues at most one store write per key of the key list
\* and one for the preset, any other handler at most one.
C19_NoNotificationLoop ==
    [][/\ last'.op = "notify" =>
            /\ Len(queue') = Len(queue) - 1
            /\ UNCHANGED <<settings, settingsBool, settingsSaved>>
       /\ last'.op = "idle" =>
            /\ queue' = queue
            /\ idle' = <<>>
            /\ last'.writes = 0
       /\ last'.op \in {"reset", "save"} =>
            /\ last'.writes <= Len(PrefKeys) + 1
            /\ Len(queue') <= Len(queue) + last'.writes
       /\ last'.op \in {"edit", "pick", "toggle"} =>
            /\ last'.writes <= 1
            /\ Len(queue') <= Len(queue) + last'.writes
       /\ last'.op = "external" => Len(queue') = Len(queue) + 1]_vars

\* C19 witness: another process flipped a use-icon key, the notification was
\* delivered and pushed into the switch, and nothing is left to run.
C19_Witness ==
    /\ last.op = "notify"
    /\ last.key \in UseIconKeys
    /\ ~last.same
    /\ active[last.key] = settingsBool[last.key]
    /\ queue = <<>>
    /\ idle = <<>>

\* C20: a flip of a use-icon key, by the switch or by another process,
\* changes the cached and the stored flag of that key only: the cached
\* strings, the saved map, the stored strings and preset, and so
\* isCurrentEqualToDefault() and isCurrentEqualToSaved(), stay as they were.
C20_ToggleFrame ==
    [][(\/ last'.op = "toggle"
        \/ last'.op \in {"notify", "external"} /\ last'.key \in UseIconKeys) =>
          /\ UNCHANGED <<currentSymbols, savedSymbols, settings, settingsSaved>>
          /\ \A key \in UseIconKeys \ {last'.key} :
                /\ currentUseIcon'[key] = currentUseIcon[key]
                /\ settingsBool'[key] = settingsBool[key]
          /\ isCurrentEqualToDefault(Now)' = isCurrentEqualToDefault(Now)
          /\ isCurrentEqualToSaved(Now)' = isCurrentEqualToSaved(Now)]_vars

\* C20 witness: the user switched a modifier to its icon.
C20_Witness ==
    /\ last.op = "toggle"
    /\ currentUseIcon[last.key]
    /\ settingsBool[last.key]
    /\ active[last.key]

\* map[key], a key the map does not hold (or holds as undefined) read as the
\* empty string.
ReadOrEmpty(map, key) == Coalesce(Get(map, key), "")

\* C21: when the handler of a change of saved-symbols has run, the cached
\* saved map and the stored preset give the same value for every key, a key
\* a map does not hold read as the empty string.
C21_SavedFollowsStore ==
    (last.op = "notify" /\ last.key = SavedSymbolsKey) =>
        \A key \in DOMAIN savedSymbols \cup DOMAIN settingsSaved :
            ReadOrEmpty(savedSymbols, key) = ReadOrEmpty(settingsSaved, key)

\* Nothing is waiting to run in the open window.
Quiescent == ~closed /\ queue = <<>> /\ idle = <<>>

\* C22: with nothing waiting to run, every entry of the open window shows the
\* value the cache holds for its key.
C22_NoLostEdit ==
    Quiescent => \A key \in SymbolKeys : text[key] = Get(currentSymbols, key)

C24_DefaultsMatchKeys ==
    last.op = "reset" =>
        /\ Len(PrefKeys) = Len(PrefDefaults)
        /\ \A i \in 1..Len(PrefKeys) :
              PrefKeys[i] \in StringKeys /\ ArrayGet(PrefDefaults, i) # undefined
        /\ \A p \in last.sets : p[1] \in StringKeys /\ p[2] # undefined
        /\ ~last.threw
        /\ ~last.swallowed

====
